---- MODULE Spec2Model ----
(***************************************************************************)
(* Model of src/src/state/store/state_machine_objects.rs: IndexifyState,   *)
(* the in-memory reverse indexes, and apply_state_machine_updates, the     *)
(* dispatcher that writes the forward index (RocksDB columns) inside one   *)
(* optimistic transaction, commits it and then updates the reverse indexes.*)
(*                                                                         *)
(* Encodings.  Option<T>: None is {} and Some(x) is {x}.  HashMap<K,V> and *)
(* a RocksDB column: a function whose DOMAIN is the set of present keys.   *)
(* HashSet<T>: a set.  Vec<T>: a sequence.  A persisted record keeps the   *)
(* fields the handlers read or the claims speak about.                     *)
(***************************************************************************)
EXTENDS Integers, Sequences, FiniteSets, TLC

\* ---------------------------------------------------------------- bounds
\* cap of executor_running_task_count (a usize in the code); requests that
\* would raise a count above it are not submitted
MaxCount == 2
\* timestamps (processed_at, policy_completion_time) range over 1..MaxTime
MaxTime == 2

\* ---------------------------------------------------------- input domains
TaskIds == {"T1", "T2"}
ExecutorIds == {"E1", "E2"}
ExtractorNames == {"X", "Y"}
NamespaceNames == {"ns", "ns2"}
ContentIds == {"C1", "C2"}
StateChangeIds == {"S1", "S2"}
PolicyIds == {"P1"}
PolicyNames == {"pa", "pb"}
SchemaIds == {"SC1", "SC2"}
IndexIds == {"I1"}
Times == 1..MaxTime
\* internal_api::TaskOutcome
TaskOutcomes == {"Unknown", "Success", "Failed"}
Terminal(outcome) == outcome \in {"Success", "Failed"}

\* ------------------------------------------------------- Option / HashMap
None == {}
Some(x) == {x}
EmptyMap == [k \in {} |-> {}]
\* HashMap::get / txn.get_cf, as an Option
Lookup(m, k) == IF k \in DOMAIN m THEN Some(m[k]) ELSE None
\* HashMap::insert / txn.put_cf
Put(m, k, v) == [x \in (DOMAIN m) \cup {k} |-> IF x = k THEN v ELSE m[x]]
\* HashMap::remove / txn.delete_cf
Delete(m, k) == [x \in (DOMAIN m) \ {k} |-> m[x]]
\* map.entry(k).or_default().insert(v) on a HashMap<K, HashSet<V>>
EntryInsert(m, k, v) == Put(m, k, (IF k \in DOMAIN m THEN m[k] ELSE {}) \cup {v})
\* map.entry(k).or_default().remove(v) on a HashMap<K, HashSet<V>>
EntryRemove(m, k, v) == Put(m, k, (IF k \in DOMAIN m THEN m[k] ELSE {}) \ {v})
\* the value set of a HashMap<K, HashSet<V>> at k, empty when k is absent
SetAt(m, k) == IF k \in DOMAIN m THEN m[k] ELSE {}

\* ------------------------------------------------------------------ state
\* db: the committed forward index, one field per StateMachineColumns column
\* self: the IndexifyState, one field per reverse index
\* request, result: the argument and the return value of the last call of
\*   apply_state_machine_updates
\* replica: a second state-machine instance, with its own forward index db,
\*   its own IndexifyState self and the return value result of its last call;
\*   it stays fresh unless the requests are applied to both instances
VARIABLES db, self, request, result, replica
vars == <<db, self, request, result, replica>>

\* the empty OptimisticTransactionDB
EmptyDb ==
  [StateChanges |-> EmptyMap, Tasks |-> EmptyMap, TaskAssignments |-> EmptyMap,
   Executors |-> EmptyMap, Extractors |-> EmptyMap, ContentTable |-> EmptyMap,
   ExtractionPolicies |-> EmptyMap, Namespaces |-> EmptyMap,
   StructuredDataSchemas |-> EmptyMap, IndexTable |-> EmptyMap,
   ExtractionPoliciesAppliedOnContent |-> EmptyMap]

\* IndexifyState::default()
IndexifyState ==
  [unassigned_tasks |-> {}, unprocessed_state_changes |-> {},
   content_namespace_table |-> EmptyMap, extraction_policies_table |-> EmptyMap,
   extractor_executors_table |-> EmptyMap, namespace_index_table |-> EmptyMap,
   unfinished_tasks_by_extractor |-> EmptyMap,
   executor_running_task_count |-> EmptyMap, schemas_by_namespace |-> EmptyMap]

\* a writer's outcome: err is "Ok" or the StateMachineError kind; txn is the
\* transaction's view of the columns (the committed data overlaid with the
\* transaction's own pending writes)
Ok(txn) == [err |-> "Ok", txn |-> txn]
Err(kind, txn) == [err |-> kind, txn |-> txn]
\* the ? operator: the next writer runs only if the previous one succeeded
Then(r, W(_)) == IF r.err # "Ok" THEN r ELSE W(r.txn)

\* ------------------------------------------------- forward-index writers
\* fn set_new_state_changes: put every change under its id
RECURSIVE set_new_state_changes(_, _)
set_new_state_changes(txn, state_changes) ==
  IF state_changes = <<>> THEN Ok(txn)
  ELSE LET change == Head(state_changes)
       IN set_new_state_changes(
            [txn EXCEPT !.StateChanges = Put(@, change.id, change)],
            Tail(state_changes))

\* set_processed_state_changes that passes over a missing record
RECURSIVE set_processed_state_changes_skips_missing(_, _)
set_processed_state_changes_skips_missing(txn, state_changes) ==
  IF state_changes = <<>> THEN Ok(txn)
  ELSE LET change == Head(state_changes)
       IN IF change.state_change_id \notin DOMAIN txn.StateChanges
          THEN set_processed_state_changes_skips_missing(txn, Tail(state_changes))
          ELSE set_processed_state_changes_skips_missing(
                 [txn EXCEPT !.StateChanges[change.state_change_id].processed_at =
                    Some(change.processed_at)],
                 Tail(state_changes))

\* set_processed_state_changes that keeps the processed_at of a record that
\* is processed already
RECURSIVE set_processed_state_changes_keeps_first(_, _)
set_processed_state_changes_keeps_first(txn, state_changes) ==
  IF state_changes = <<>> THEN Ok(txn)
  ELSE LET change == Head(state_changes)
       IN IF change.state_change_id \notin DOMAIN txn.StateChanges
          THEN Err("DatabaseError", txn)
          ELSE set_processed_state_changes_keeps_first(
                 [txn EXCEPT !.StateChanges[change.state_change_id].processed_at =
                    IF @ = None THEN Some(change.processed_at) ELSE @],
                 Tail(state_changes))

\* fn set_processed_state_changes: read-modify-write of processed_at; a
\* missing record is DatabaseError("State change not found")
RECURSIVE set_processed_state_changes(_, _)
set_processed_state_changes(txn, state_changes) ==
  IF state_changes = <<>> THEN Ok(txn)
  ELSE LET change == Head(state_changes)
           found == Lookup(txn.StateChanges, change.state_change_id)
       IN IF found = None THEN Err("DatabaseError", txn)
          ELSE LET state_change ==
                     [txn.StateChanges[change.state_change_id]
                        EXCEPT !.processed_at = Some(change.processed_at)]
               IN set_processed_state_changes(
                    [txn EXCEPT !.StateChanges =
                       Put(@, change.state_change_id, state_change)],
                    Tail(state_changes))

\* fn set_index
set_index(txn, index, id) ==
  Ok([txn EXCEPT !.IndexTable = Put(@, id, index)])

\* fn set_tasks: put every task under its id
RECURSIVE set_tasks(_, _)
set_tasks(txn, tasks) ==
  IF tasks = <<>> THEN Ok(txn)
  ELSE set_tasks([txn EXCEPT !.Tasks = Put(@, Head(tasks).id, Head(tasks))],
                 Tail(tasks))

\* fn update_tasks: same writes as set_tasks, over a Vec of references
update_tasks(txn, tasks) == set_tasks(txn, tasks)

\* get_task_assignments_for_executor that never finds the stored set
get_task_assignments_not_read(txn, executor_id) == {}

\* fn get_task_assignments_for_executor: the stored set, or an empty set
get_task_assignments_for_executor(txn, executor_id) ==
  IF executor_id \in DOMAIN txn.TaskAssignments
  THEN txn.TaskAssignments[executor_id] ELSE {}

\* fn set_task_assignments, called with a map of one executor: the set of
\* the executor is overwritten by task_ids
set_task_assignments(txn, executor_id, task_ids) ==
  Ok([txn EXCEPT !.TaskAssignments = Put(@, executor_id, task_ids)])

\* fn delete_task_assignments_for_executor: the task ids it returns
deleted_task_ids(txn, executor_id) ==
  get_task_assignments_for_executor(txn, executor_id)

\* fn delete_task_assignments_for_executor: the delete_cf of the key
delete_task_assignments_for_executor(txn, executor_id) ==
  Ok([txn EXCEPT !.TaskAssignments = Delete(@, executor_id)])

\* fn set_content: put every content under its id
RECURSIVE set_content(_, _)
set_content(txn, contents_vec) ==
  IF contents_vec = <<>> THEN Ok(txn)
  ELSE set_content(
         [txn EXCEPT !.ContentTable =
            Put(@, Head(contents_vec).id, Head(contents_vec))],
         Tail(contents_vec))

\* fn set_executor: ExecutorMetadata {id, last_seen, addr, extractor}
set_executor(txn, addr, executor_id, extractor, ts_secs) ==
  Ok([txn EXCEPT !.Executors =
        Put(@, executor_id, [id |-> executor_id, last_seen |-> ts_secs,
                             addr |-> addr, extractor |-> extractor])])

\* fn delete_executor: a missing record is DatabaseError("Executor not found")
delete_executor(txn, executor_id) ==
  IF executor_id \notin DOMAIN txn.Executors THEN Err("DatabaseError", txn)
  ELSE Ok([txn EXCEPT !.Executors = Delete(@, executor_id)])

\* fn set_extractor: the descriptor under extractor.name
set_extractor(txn, extractor) ==
  Ok([txn EXCEPT !.Extractors = Put(@, extractor.name, extractor)])

\* fn set_schema
set_schema(txn, schema) ==
  Ok([txn EXCEPT !.StructuredDataSchemas = Put(@, schema.id, schema)])

\* fn set_extraction_policy: the policy, then the updated schema when it is
\* Some, then the new schema
set_extraction_policy(txn, extraction_policy, updated_structured_data_schema, new_structured_data_schema) ==
  LET r1 == Ok([txn EXCEPT !.ExtractionPolicies =
                  Put(@, extraction_policy.id, extraction_policy)])
      r2 == IF updated_structured_data_schema = None THEN r1
            ELSE Then(r1, LAMBDA t:
                   set_schema(t, CHOOSE s \in updated_structured_data_schema : TRUE))
  IN Then(r2, LAMBDA t: set_schema(t, new_structured_data_schema))

\* fn set_namespace: the namespace marker, then its schema
set_namespace(txn, namespace, structured_data_schema) ==
  Then(Ok([txn EXCEPT !.Namespaces = Put(@, namespace, namespace)]),
       LAMBDA t: set_schema(t, structured_data_schema))

\* HashMap::extend: the entries of m2 override those of m1 key by key
Extend(m1, m2) ==
  [k \in (DOMAIN m1) \cup (DOMAIN m2) |-> IF k \in DOMAIN m2 THEN m2[k] ELSE m1[k]]

\* fn set_content_policies_applied_on_content, the in-memory update of one
\* input mapping: the record read by multi_get_cf (or an empty one) with the
\* names united and the completion times extended
updated_mapping(values_txn, new_mapping) ==
  LET existing_mapping ==
        IF new_mapping.content_id \in DOMAIN values_txn.ExtractionPoliciesAppliedOnContent
        THEN values_txn.ExtractionPoliciesAppliedOnContent[new_mapping.content_id]
        ELSE [content_id |-> new_mapping.content_id,
              extraction_policy_names |-> {},
              time_of_policy_completion |-> EmptyMap]
  IN [existing_mapping EXCEPT
        !.extraction_policy_names = @ \cup new_mapping.extraction_policy_names,
        !.time_of_policy_completion =
           Extend(@, new_mapping.time_of_policy_completion)]

\* fn set_content_policies_applied_on_content, the write-back loop: every
\* updated mapping was computed from values_txn, the view multi_get_cf read
\* before the first write
RECURSIVE write_updated_mappings(_, _, _)
write_updated_mappings(txn, values_txn, mappings) ==
  IF mappings = <<>> THEN Ok(txn)
  ELSE LET updated == updated_mapping(values_txn, Head(mappings))
       IN write_updated_mappings(
            [txn EXCEPT !.ExtractionPoliciesAppliedOnContent =
               Put(@, updated.content_id, updated)],
            values_txn, Tail(mappings))

\* set_content_policies_applied_on_content that writes the updated mappings
\* back into the ContentTable column as well
set_content_policies_in_content_table(txn, mappings) ==
  LET r == write_updated_mappings(txn, txn, mappings)
  IN Ok([r.txn EXCEPT !.ContentTable =
           [c \in DOMAIN r.txn.ExtractionPoliciesAppliedOnContent |->
              r.txn.ExtractionPoliciesAppliedOnContent[c]]])

\* fn set_content_policies_applied_on_content
set_content_policies_applied_on_content(txn, mappings) ==
  write_updated_mappings(txn, txn, mappings)

\* fn mark_extraction_policy_applied_on_content: both a missing mapping and a
\* policy name that is not registered are a DatabaseError
mark_extraction_policy_applied_on_content(txn, content_id, extraction_policy_name, policy_completion_time) ==
  IF content_id \notin DOMAIN txn.ExtractionPoliciesAppliedOnContent
  THEN Err("DatabaseError", txn)
  ELSE LET content_policy_mappings ==
             txn.ExtractionPoliciesAppliedOnContent[content_id]
       IN IF extraction_policy_name \notin content_policy_mappings.extraction_policy_names
          THEN Err("DatabaseError", txn)
          ELSE Ok([txn EXCEPT !.ExtractionPoliciesAppliedOnContent =
                 Put(@, content_id,
                     [content_id |-> content_id,
                      extraction_policy_names |->
                        content_policy_mappings.extraction_policy_names,
                      time_of_policy_completion |->
                        Put(content_policy_mappings.time_of_policy_completion,
                            extraction_policy_name, policy_completion_time)])])

\* ------------------------------------------------------------ store_utils
\* store_utils::increment_running_task_count: the count of the executor,
\* started at 0 when the key is absent, plus one
increment_running_task_count(executor_running_task_count, executor_id) ==
  Put(executor_running_task_count, executor_id,
      (IF executor_id \in DOMAIN executor_running_task_count
       THEN executor_running_task_count[executor_id] ELSE 0) + 1)

\* store_utils::decrement_running_task_count: the count of the executor minus
\* one; a count of 0 and an absent key are left alone (the count is a usize)
decrement_running_task_count(executor_running_task_count, executor_id) ==
  IF executor_id \in DOMAIN executor_running_task_count
     /\ executor_running_task_count[executor_id] > 0
  THEN Put(executor_running_task_count, executor_id,
           executor_running_task_count[executor_id] - 1)
  ELSE executor_running_task_count

\* the value of an Option that is Some
Unwrap(opt) == CHOOSE x \in opt : TRUE

\* ------------------------------- apply_state_machine_updates, match arms
\* a forward step's outcome: the writer outcome and the IndexifyState as the
\* step leaves it
Step(r, s) == [err |-> r.err, txn |-> r.txn, self |-> s]

\* AssignTask arm (lines 556-576), the loop over the executors of the
\* grouped assignments: read the executor's set, extend it, write it back
RECURSIVE AssignTask_loop(_, _, _)
AssignTask_loop(txn, assignments, executors) ==
  IF executors = {} THEN Ok(txn)
  ELSE LET executor_id == CHOOSE e \in executors : TRUE
           tasks == {t \in DOMAIN assignments : assignments[t] = executor_id}
           existing_tasks == get_task_assignments_for_executor(txn, executor_id)
       IN Then(set_task_assignments(txn, executor_id, existing_tasks \cup tasks),
               LAMBDA t: AssignTask_loop(t, assignments, executors \ {executor_id}))

\* AssignTask arm
AssignTask_writes(txn, assignments) ==
  AssignTask_loop(txn, assignments, {assignments[t] : t \in DOMAIN assignments})

\* UpdateTask arm (lines 577-604): the task, then for a finished task with an
\* executor id the executor's assignment set without the task and a
\* decrement of the executor's running count, then the content metadata
UpdateTask_writes(s, txn, p) ==
  LET r1 == update_tasks(txn, <<p.task>>)
      finish == p.mark_finished /\ p.executor_id # None
      r2 == IF finish
            THEN Then(r1, LAMBDA t:
                   set_task_assignments(t, Unwrap(p.executor_id),
                     get_task_assignments_for_executor(t, Unwrap(p.executor_id))
                       \ {p.task.id}))
            ELSE r1
      s2 == IF finish /\ r2.err = "Ok"
            THEN [s EXCEPT !.executor_running_task_count =
                    decrement_running_task_count(@, Unwrap(p.executor_id))]
            ELSE s
  IN Step(Then(r2, LAMBDA t: set_content(t, p.content_metadata)), s2)

\* RegisterExecutor arm (lines 605-616)
RegisterExecutor_writes(txn, p) ==
  Then(set_executor(txn, p.addr, p.executor_id, p.extractor, p.ts_secs),
       LAMBDA t: set_extractor(t, p.extractor))

\* RemoveExecutor arm (lines 617-629), the writes before its own commit
RemoveExecutor_writes(txn, p) ==
  Then(delete_executor(txn, p.executor_id),
       LAMBDA t: delete_task_assignments_for_executor(t, p.executor_id))

\* RemoveExecutor arm (lines 631-646), the reverse-index step after its own
\* commit; executor_meta and task_ids were read inside the transaction
RemoveExecutor_reverse(s, executor_meta, task_ids, executor_id) ==
  [s EXCEPT
     !.extractor_executors_table =
        EntryRemove(@, executor_meta.extractor.name, executor_meta.id),
     !.unassigned_tasks = @ \cup task_ids,
     !.executor_running_task_count = Delete(@, executor_id)]

\* the match on request.payload (lines 545-696)
payload_writes(s, txn, p) ==
  CASE p.kind = "CreateIndex" -> Step(set_index(txn, p.index, p.id), s)
    [] p.kind = "CreateTasks" -> Step(set_tasks(txn, p.tasks), s)
    [] p.kind = "AssignTask" -> Step(AssignTask_writes(txn, p.assignments), s)
    [] p.kind = "UpdateTask" -> UpdateTask_writes(s, txn, p)
    [] p.kind = "RegisterExecutor" -> Step(RegisterExecutor_writes(txn, p), s)
    [] p.kind = "RemoveExecutor" -> Step(RemoveExecutor_writes(txn, p), s)
    [] p.kind = "CreateContent" -> Step(set_content(txn, p.content_metadata), s)
    [] p.kind = "CreateExtractionPolicy" ->
         Step(set_extraction_policy(txn, p.extraction_policy,
                p.updated_structured_data_schema, p.new_structured_data_schema), s)
    [] p.kind = "SetContentExtractionPolicyMappings" ->
         Step(set_content_policies_applied_on_content(
                txn, p.content_extraction_policy_mappings), s)
    [] p.kind = "MarkExtractionPolicyAppliedOnContent" ->
         Step(mark_extraction_policy_applied_on_content(
                txn, p.content_id, p.extraction_policy_name,
                p.policy_completion_time), s)
    [] p.kind = "CreateNamespace" ->
         Step(set_namespace(txn, p.name, p.structured_data_schema), s)
    [] p.kind = "MarkStateChangesProcessed" ->
         Step(set_processed_state_changes(txn, p.state_changes), s)
    [] OTHER -> Step(Ok(txn), s)

\* --------------------------------------------------- reverse-index apply
\* mark_state_changes_processed that leaves the id in the set
mark_state_changes_processed_not_removed(s, state_change) == s

\* fn mark_state_changes_processed
mark_state_changes_processed(s, state_change) ==
  [s EXCEPT !.unprocessed_state_changes = @ \ {state_change.state_change_id}]

\* fn apply (lines 710-712): the loop over request.new_state_changes
RECURSIVE apply_new_state_changes(_, _)
apply_new_state_changes(s, changes) ==
  IF changes = <<>> THEN s
  ELSE apply_new_state_changes(
         [s EXCEPT !.unprocessed_state_changes = @ \cup {Head(changes).id}],
         Tail(changes))

\* fn apply (lines 713-715 and 822-826): the loops over processed changes
RECURSIVE apply_state_changes_processed(_, _)
apply_state_changes_processed(s, changes) ==
  IF changes = <<>> THEN s
  ELSE apply_state_changes_processed(
         mark_state_changes_processed(s, Head(changes)), Tail(changes))

\* update_schema_reverse_idx that replaces the set of the namespace by the
\* schema id instead of inserting into it
update_schema_reverse_idx_replaces(s, schema) ==
  [s EXCEPT !.schemas_by_namespace = Put(@, schema.namespace, {schema.id})]

\* fn update_schema_reverse_idx
update_schema_reverse_idx(s, schema) ==
  [s EXCEPT !.schemas_by_namespace = EntryInsert(@, schema.namespace, schema.id)]

\* fn apply, RegisterExecutor arm (lines 717-736)
apply_RegisterExecutor(s, p) ==
  [s EXCEPT
     !.extractor_executors_table = EntryInsert(@, p.extractor.name, p.executor_id),
     !.executor_running_task_count = Put(@, p.executor_id, 0)]

\* fn apply, CreateTasks arm (lines 738-746)
RECURSIVE apply_CreateTasks(_, _)
apply_CreateTasks(s, tasks) ==
  IF tasks = <<>> THEN s
  ELSE LET task == Head(tasks)
       IN apply_CreateTasks(
            [s EXCEPT
               !.unassigned_tasks = @ \cup {task.id},
               !.unfinished_tasks_by_extractor =
                  EntryInsert(@, task.extractor, task.id)],
            Tail(tasks))

\* fn apply, AssignTask arm (lines 747-756): one removal and one increment for
\* every (task_id, executor_id) entry of the assignments map
RECURSIVE apply_AssignTask(_, _, _)
apply_AssignTask(s, assignments, task_ids) ==
  IF task_ids = {} THEN s
  ELSE LET task_id == CHOOSE t \in task_ids : TRUE
       IN apply_AssignTask(
            [s EXCEPT
               !.unassigned_tasks = @ \ {task_id},
               !.executor_running_task_count =
                  increment_running_task_count(@, assignments[task_id])],
            assignments, task_ids \ {task_id})

\* fn apply, CreateContent arm (lines 757-765) and the content loop of the
\* UpdateTask arm (lines 815-820)
RECURSIVE apply_content_metadata(_, _)
apply_content_metadata(s, content_metadata) ==
  IF content_metadata = <<>> THEN s
  ELSE LET content == Head(content_metadata)
       IN apply_content_metadata(
            [s EXCEPT !.content_namespace_table =
               EntryInsert(@, content.namespace, content.id)],
            Tail(content_metadata))

\* fn apply, CreateExtractionPolicy arm (lines 766-779)
apply_CreateExtractionPolicy(s, p) ==
  LET s1 == [s EXCEPT !.extraction_policies_table =
               EntryInsert(@, p.extraction_policy.namespace, p.extraction_policy.id)]
      s2 == IF p.updated_structured_data_schema = None THEN s1
            ELSE update_schema_reverse_idx(s1, Unwrap(p.updated_structured_data_schema))
  IN update_schema_reverse_idx(s2, p.new_structured_data_schema)

\* fn apply, UpdateTask arm (lines 796-821)
apply_UpdateTask(s, p) ==
  LET s1 == IF p.mark_finished
            THEN [s EXCEPT
                    !.unassigned_tasks = @ \ {p.task.id},
                    !.unfinished_tasks_by_extractor =
                       EntryRemove(@, p.task.extractor, p.task.id),
                    !.executor_running_task_count =
                       IF p.executor_id = None THEN @
                       ELSE decrement_running_task_count(@, Unwrap(p.executor_id))]
            ELSE s
  IN apply_content_metadata(s1, p.content_metadata)

\* fn apply
apply(s, req) ==
  LET s1 == apply_state_changes_processed(
              apply_new_state_changes(s, req.new_state_changes),
              req.state_changes_processed)
      p == req.payload
  IN CASE p.kind = "RegisterExecutor" -> apply_RegisterExecutor(s1, p)
       [] p.kind = "RemoveExecutor" -> s1
       [] p.kind = "CreateTasks" -> apply_CreateTasks(s1, p.tasks)
       [] p.kind = "AssignTask" ->
            apply_AssignTask(s1, p.assignments, DOMAIN p.assignments)
       [] p.kind = "CreateContent" -> apply_content_metadata(s1, p.content_metadata)
       [] p.kind = "CreateExtractionPolicy" -> apply_CreateExtractionPolicy(s1, p)
       [] p.kind = "CreateNamespace" ->
            update_schema_reverse_idx(s1, p.structured_data_schema)
       [] p.kind = "CreateIndex" ->
            [s1 EXCEPT !.namespace_index_table = EntryInsert(@, p.namespace, p.id)]
       [] p.kind = "UpdateTask" -> apply_UpdateTask(s1, p)
       [] p.kind = "MarkStateChangesProcessed" ->
            apply_state_changes_processed(s1, p.state_changes)
       [] OTHER -> s1

\* ------------------------------------------------------------ dispatcher
\* rollback with the pending writes of the dropped transaction left in place
rollback_keeps_writes(d, txn) == txn

\* the transaction is dropped without a commit (an early return through ?,
\* or a failed commit): the committed data d stays, the pending writes of
\* txn are discarded
rollback(d, txn) == d

\* txn.commit() returned Ok: the pending writes become the committed data
commit(d, txn) == txn

\* fn apply_state_machine_updates: the return value, the committed forward
\* index and the IndexifyState after the call; commit_ok is the outcome of
\* txn.commit()
apply_state_machine_updates(s, d, req, commit_ok) ==
  LET r0 == Then(set_new_state_changes(d, req.new_state_changes),
                 LAMBDA t: set_processed_state_changes(t, req.state_changes_processed))
      w == IF r0.err # "Ok" THEN Step(r0, s)
           ELSE payload_writes(s, r0.txn, req.payload)
      p == req.payload
  IN IF w.err # "Ok"
     THEN [result |-> w.err, db |-> rollback(d, w.txn), self |-> w.self]
     ELSE IF ~commit_ok
     THEN [result |-> "TransactionError", db |-> rollback(d, w.txn), self |-> w.self]
     ELSE IF p.kind = "RemoveExecutor"
     THEN [result |-> "Ok", db |-> commit(d, w.txn),
           self |-> RemoveExecutor_reverse(w.self, r0.txn.Executors[p.executor_id],
                      deleted_task_ids(r0.txn, p.executor_id), p.executor_id)]
     ELSE [result |-> "Ok", db |-> commit(d, w.txn), self |-> apply(w.self, req)]

\* fn apply_state_machine_updates (lines 540-696): the IndexifyState when the
\* call reaches txn.commit(), or returns early through ?
self_at_commit(s, d, req) ==
  LET r0 == Then(set_new_state_changes(d, req.new_state_changes),
                 LAMBDA t: set_processed_state_changes(t, req.state_changes_processed))
      w == IF r0.err # "Ok" THEN Step(r0, s)
           ELSE payload_writes(s, r0.txn, req.payload)
  IN w.self

\* ------------------------------------------- HashMap iteration orders
\* The order in which a HashMap is iterated is not fixed by its contents: it
\* is an input of the loops over one.  An order is a sequence that lists
\* every key once.
Orders(S) ==
  {order \in [1..Cardinality(S) -> S] : \A k \in S : \E i \in DOMAIN order : order[i] = k}

\* the key of S the iteration in this order yields first
First(S, order) ==
  order[CHOOSE i \in DOMAIN order :
          /\ order[i] \in S
          /\ \A j \in DOMAIN order : order[j] \in S => i <= j]

\* the AssignTask loop that returns after the first executor of the iteration
AssignTask_loop_in_returns_early(txn, assignments, executors, executor_order) ==
  IF executors = {} THEN Ok(txn)
  ELSE LET executor_id == First(executors, executor_order)
           tasks == {t \in DOMAIN assignments : assignments[t] = executor_id}
           existing_tasks == get_task_assignments_for_executor(txn, executor_id)
       IN set_task_assignments(txn, executor_id, existing_tasks \cup tasks)

\* AssignTask arm (lines 556-576), the loop over the grouped assignments,
\* iterated in executor_order
RECURSIVE AssignTask_loop_in(_, _, _, _)
AssignTask_loop_in(txn, assignments, executors, executor_order) ==
  IF executors = {} THEN Ok(txn)
  ELSE LET executor_id == First(executors, executor_order)
           tasks == {t \in DOMAIN assignments : assignments[t] = executor_id}
           existing_tasks == get_task_assignments_for_executor(txn, executor_id)
       IN Then(set_task_assignments(txn, executor_id, existing_tasks \cup tasks),
               LAMBDA t: AssignTask_loop_in(t, assignments,
                                            executors \ {executor_id}, executor_order))

\* fn apply, AssignTask arm (lines 747-756), the loop over the assignments map
\* iterated in task_order
RECURSIVE apply_AssignTask_in(_, _, _, _)
apply_AssignTask_in(s, assignments, task_ids, task_order) ==
  IF task_ids = {} THEN s
  ELSE LET task_id == First(task_ids, task_order)
       IN apply_AssignTask_in(
            [s EXCEPT
               !.unassigned_tasks = @ \ {task_id},
               !.executor_running_task_count =
                  increment_running_task_count(@, assignments[task_id])],
            assignments, task_ids \ {task_id}, task_order)

\* fn apply_state_machine_updates with the iteration orders of its HashMap
\* loops as inputs: the AssignTask arms iterate the grouped assignments in
\* executor_order and the assignments in task_order; no other arm iterates a
\* HashMap
apply_state_machine_updates_in(s, d, req, commit_ok, executor_order, task_order) ==
  IF req.payload.kind # "AssignTask"
  THEN apply_state_machine_updates(s, d, req, commit_ok)
  ELSE LET assignments == req.payload.assignments
           r0 == Then(set_new_state_changes(d, req.new_state_changes),
                      LAMBDA t: set_processed_state_changes(t, req.state_changes_processed))
           w == Then(r0, LAMBDA t:
                  AssignTask_loop_in(t, assignments,
                    {assignments[task_id] : task_id \in DOMAIN assignments},
                    executor_order))
       IN IF w.err # "Ok"
          THEN [result |-> w.err, db |-> rollback(d, w.txn), self |-> s]
          ELSE IF ~commit_ok
          THEN [result |-> "TransactionError", db |-> rollback(d, w.txn), self |-> s]
          ELSE [result |-> "Ok", db |-> commit(d, w.txn),
                self |-> apply_AssignTask_in(
                           apply_state_changes_processed(
                             apply_new_state_changes(s, req.new_state_changes),
                             req.state_changes_processed),
                           assignments, DOMAIN assignments, task_order)]

\* ------------------------------------------------------------- requests
\* Vec<T> values of length 0..n over the set S
SeqsUpTo(S, n) == UNION {[1..k -> S] : k \in 0..n}

\* HashMap<K, V> values: the functions from a subset of K to V
Maps(K, V) == UNION {[D -> V] : D \in SUBSET K}

\* Option<T> values over the set S
Options(S) == {None} \cup {Some(x) : x \in S}

\* internal_api::StateChange as the callers create it: not processed yet
NewStateChanges == [id : StateChangeIds, processed_at : {None}]
\* requests::StateChangeProcessed
StateChangesProcessed == [state_change_id : StateChangeIds, processed_at : Times]
\* internal_api::ContentMetadata
Contents == [id : ContentIds, namespace : NamespaceNames]
\* internal_api::StructuredDataSchema
Schemas == [id : SchemaIds, namespace : NamespaceNames]

\* StateMachineUpdateRequest
Request(new_state_changes, state_changes_processed, payload) ==
  [new_state_changes |-> new_state_changes,
   state_changes_processed |-> state_changes_processed,
   payload |-> payload]

\* the (new_state_changes, state_changes_processed) parts of a request that
\* carries no state change
NoChanges == {<<(<<>>), (<<>>)>>}

\* ---------------------------------------------------------------- actions
Init ==
  /\ db = EmptyDb
  /\ self = IndexifyState
  /\ request = Request(<<>>, <<>>, [kind |-> "None"])
  /\ result = "None"
  /\ replica = [db |-> EmptyDb, self |-> IndexifyState, result |-> "None"]

\* every running count stays within the model's cap
WithinCap(s) ==
  \A e \in DOMAIN s.executor_running_task_count :
    s.executor_running_task_count[e] <= MaxCount

\* one call of apply_state_machine_updates with the request made of the
\* state-change parts ch and the payload, where txn.commit() returns Ok iff
\* commit_ok: the request, the return value, the committed forward index and
\* the IndexifyState after the call
Call(ch, payload, commit_ok) ==
  LET req == Request(ch[1], ch[2], payload)
      out == apply_state_machine_updates(self, db, req, commit_ok)
  IN [request |-> req, result |-> out.result, db |-> out.db, self |-> out.self]

\* the call returns: its effects become the state; the request was not given
\* to the second instance
Returns(out) ==
  /\ db' = out.db
  /\ self' = out.self
  /\ request' = out.request
  /\ result' = out.result
  /\ replica' = replica

\* The actions draw the fields of their request from the input domain D, a
\* record of sets: changes (the state-change parts), commit (the outcomes of
\* txn.commit()), tasks, executors, extractors (of executors), contents
\* (the content_metadata vectors) and so on.
RegisterExecutor(D) ==
  \E ch \in D.changes, commit_ok \in D.commit,
     executor_id \in D.executors, name \in D.extractors :
    LET out == Call(ch, [kind |-> "RegisterExecutor", addr |-> "addr",
                         executor_id |-> executor_id,
                         extractor |-> [name |-> name], ts_secs |-> 1],
                    commit_ok)
    IN WithinCap(out.self) /\ Returns(out)

RemoveExecutor(D) ==
  \E ch \in D.changes, commit_ok \in D.commit, executor_id \in D.executors :
    LET out == Call(ch, [kind |-> "RemoveExecutor", executor_id |-> executor_id],
                    commit_ok)
    IN WithinCap(out.self) /\ Returns(out)

CreateTasks(D) ==
  \E ch \in D.changes, commit_ok \in D.commit, tasks \in SeqsUpTo(D.tasks, 1) :
    LET out == Call(ch, [kind |-> "CreateTasks", tasks |-> tasks], commit_ok)
    IN WithinCap(out.self) /\ Returns(out)

AssignTask(D) ==
  \E ch \in D.changes, commit_ok \in D.commit,
     assignments \in Maps({t.id : t \in D.tasks}, D.executors) :
    LET out == Call(ch, [kind |-> "AssignTask", assignments |-> assignments],
                    commit_ok)
    IN WithinCap(out.self) /\ Returns(out)

UpdateTask(D) ==
  \E ch \in D.changes, commit_ok \in D.commit, task \in D.tasks,
     mark_finished \in BOOLEAN, executor_id \in Options(D.executors),
     content_metadata \in D.contents :
    LET out == Call(ch, [kind |-> "UpdateTask", task |-> task,
                         mark_finished |-> mark_finished,
                         executor_id |-> executor_id,
                         content_metadata |-> content_metadata],
                    commit_ok)
    IN WithinCap(out.self) /\ Returns(out)

CreateIndex(D) ==
  \E ch \in D.changes, commit_ok \in D.commit,
     namespace \in D.namespaces, id \in D.indexes :
    LET out == Call(ch, [kind |-> "CreateIndex", index |-> [name |-> id],
                         namespace |-> namespace, id |-> id],
                    commit_ok)
    IN WithinCap(out.self) /\ Returns(out)

CreateContent(D) ==
  \E ch \in D.changes, commit_ok \in D.commit, content_metadata \in D.contents :
    LET out == Call(ch, [kind |-> "CreateContent",
                         content_metadata |-> content_metadata],
                    commit_ok)
    IN WithinCap(out.self) /\ Returns(out)

CreateExtractionPolicy(D) ==
  \E ch \in D.changes, commit_ok \in D.commit, extraction_policy \in D.policies,
     updated_structured_data_schema \in Options(D.schemas),
     new_structured_data_schema \in D.schemas :
    LET out == Call(ch, [kind |-> "CreateExtractionPolicy",
                         extraction_policy |-> extraction_policy,
                         updated_structured_data_schema |->
                           updated_structured_data_schema,
                         new_structured_data_schema |-> new_structured_data_schema],
                    commit_ok)
    IN WithinCap(out.self) /\ Returns(out)

SetContentExtractionPolicyMappings(D) ==
  \E ch \in D.changes, commit_ok \in D.commit,
     content_extraction_policy_mappings \in D.mappings :
    LET out == Call(ch, [kind |-> "SetContentExtractionPolicyMappings",
                         content_extraction_policy_mappings |->
                           content_extraction_policy_mappings],
                    commit_ok)
    IN WithinCap(out.self) /\ Returns(out)

MarkExtractionPolicyAppliedOnContent(D) ==
  \E ch \in D.changes, commit_ok \in D.commit, content_id \in D.content_ids,
     extraction_policy_name \in D.policy_names,
     policy_completion_time \in D.times :
    LET out == Call(ch, [kind |-> "MarkExtractionPolicyAppliedOnContent",
                         content_id |-> content_id,
                         extraction_policy_name |-> extraction_policy_name,
                         policy_completion_time |-> policy_completion_time],
                    commit_ok)
    IN WithinCap(out.self) /\ Returns(out)

CreateNamespace(D) ==
  \E ch \in D.changes, commit_ok \in D.commit, name \in D.namespaces,
     structured_data_schema \in D.schemas :
    LET out == Call(ch, [kind |-> "CreateNamespace", name |-> name,
                         structured_data_schema |-> structured_data_schema],
                    commit_ok)
    IN WithinCap(out.self) /\ Returns(out)

MarkStateChangesProcessed(D) ==
  \E ch \in D.changes, commit_ok \in D.commit, state_changes \in D.processed :
    LET out == Call(ch, [kind |-> "MarkStateChangesProcessed",
                         state_changes |-> state_changes],
                    commit_ok)
    IN WithinCap(out.self) /\ Returns(out)

\* a RequestPayload variant the two match statements have no arm for
OtherPayload(D) ==
  \E ch \in D.changes, commit_ok \in D.commit :
    LET out == Call(ch, [kind |-> "Other"], commit_ok)
    IN WithinCap(out.self) /\ Returns(out)

\* The same request is applied to both instances; each iterates its HashMaps
\* in an order of its own.  The commit of either instance succeeds.
\* the outcome of the request on the instance i in the given orders
CallIn(i, req, executor_order, task_order) ==
  apply_state_machine_updates_in(i.self, i.db, req, TRUE, executor_order, task_order)

\* both calls return
ReturnsBoth(req, out, out2) ==
  /\ db' = out.db
  /\ self' = out.self
  /\ request' = req
  /\ result' = out.result
  /\ replica' = out2

ReplicatedRegisterExecutor(D) ==
  \E executor_id \in D.executors, name \in D.extractors :
    LET req == Request(<<>>, <<>>,
                 [kind |-> "RegisterExecutor", addr |-> "addr",
                  executor_id |-> executor_id,
                  extractor |-> [name |-> name], ts_secs |-> 1])
        out == CallIn([db |-> db, self |-> self], req, <<>>, <<>>)
        out2 == CallIn(replica, req, <<>>, <<>>)
    IN WithinCap(out.self) /\ ReturnsBoth(req, out, out2)

ReplicatedRemoveExecutor(D) ==
  \E executor_id \in D.executors :
    LET req == Request(<<>>, <<>>,
                 [kind |-> "RemoveExecutor", executor_id |-> executor_id])
        out == CallIn([db |-> db, self |-> self], req, <<>>, <<>>)
        out2 == CallIn(replica, req, <<>>, <<>>)
    IN WithinCap(out.self) /\ ReturnsBoth(req, out, out2)

ReplicatedAssignTask(D) ==
  \E assignments \in Maps({t.id : t \in D.tasks}, D.executors),
     executor_order \in Orders(D.executors), task_order \in Orders(TaskIds),
     executor_order2 \in Orders(D.executors), task_order2 \in Orders(TaskIds) :
    LET req == Request(<<>>, <<>>,
                 [kind |-> "AssignTask", assignments |-> assignments])
        out == CallIn([db |-> db, self |-> self], req, executor_order, task_order)
        out2 == CallIn(replica, req, executor_order2, task_order2)
    IN WithinCap(out.self) /\ WithinCap(out2.self) /\ ReturnsBoth(req, out, out2)

\* ---------------------------------------------------------- specifications
\* SpecTasks: two tasks of one extractor and one executor, without state
\* changes and content; every commit succeeds
DTasks ==
  [changes |-> NoChanges, commit |-> {TRUE},
   tasks |-> [id : TaskIds, extractor : {"X"}, outcome : {"Unknown", "Success"}],
   executors |-> {"E1"}, extractors |-> {"X"}, contents |-> {<<>>}]

NextTasks ==
  \/ RegisterExecutor(DTasks)
  \/ RemoveExecutor(DTasks)
  \/ CreateTasks(DTasks)
  \/ AssignTask(DTasks)
  \/ UpdateTask(DTasks)

SpecTasks == Init /\ [][NextTasks]_vars

\* SpecFail: requests that fail.  One task, one executor and one state
\* change id.  RemoveExecutor and MarkStateChangesProcessed carry state
\* changes; their commit and the commit of UpdateTask can fail
DPlain ==
  [changes |-> NoChanges, commit |-> {TRUE},
   tasks |-> [id : {"T1"}, extractor : {"X"}, outcome : {"Success"}],
   executors |-> {"E1"}, extractors |-> {"X"}, contents |-> {<<>>}]

DCommitFails == [DPlain EXCEPT !.commit = BOOLEAN]

DFail ==
  [changes |->
     {<<new, processed>> :
        new \in SeqsUpTo([id : {"S1"}, processed_at : {None}], 1),
        processed \in SeqsUpTo([state_change_id : {"S1"}, processed_at : Times], 1)},
   commit |-> BOOLEAN,
   executors |-> {"E1"},
   processed |-> SeqsUpTo([state_change_id : {"S1"}, processed_at : {1}], 1)]

NextFail ==
  \/ RegisterExecutor(DPlain)
  \/ AssignTask(DPlain)
  \/ UpdateTask(DCommitFails)
  \/ RemoveExecutor(DFail)
  \/ MarkStateChangesProcessed(DFail)

SpecFail == Init /\ [][NextFail]_vars

\* SpecAssign: two tasks and two executors; every commit succeeds.  UpdateTask
\* is drawn for task T1 and executor E1 only
DAssign ==
  [changes |-> NoChanges, commit |-> {TRUE},
   tasks |-> [id : TaskIds, extractor : {"X"}, outcome : {"Unknown"}],
   executors |-> ExecutorIds, extractors |-> {"X"}, contents |-> {<<>>}]

DAssignUpdate ==
  [changes |-> NoChanges, commit |-> {TRUE},
   tasks |-> [id : {"T1"}, extractor : {"X"}, outcome : {"Unknown"}],
   executors |-> {"E1"}, extractors |-> {"X"}, contents |-> {<<>>}]

NextAssign ==
  \/ RegisterExecutor(DAssign)
  \/ RemoveExecutor(DAssign)
  \/ CreateTasks(DAssign)
  \/ AssignTask(DAssign)
  \/ UpdateTask(DAssignUpdate)

SpecAssign == Init /\ [][NextAssign]_vars

\* SpecContent: content metadata of two ids in two namespaces, written by
\* CreateContent and by UpdateTask; every commit succeeds
DContent ==
  [changes |-> NoChanges, commit |-> {TRUE},
   tasks |-> [id : {"T1"}, extractor : {"X"}, outcome : {"Success"}],
   executors |-> {"E1"}, extractors |-> {"X"},
   contents |-> SeqsUpTo(Contents, 1)]

NextContent ==
  \/ CreateContent(DContent)
  \/ UpdateTask(DContent)

SpecContent == Init /\ [][NextContent]_vars

\* SpecExecutors: one executor that registers under either of two extractors,
\* is assigned two tasks and is removed; every commit succeeds
DExecutors ==
  [changes |-> NoChanges, commit |-> {TRUE},
   tasks |-> [id : TaskIds, extractor : {"X"}, outcome : {"Unknown"}],
   executors |-> {"E1"}, extractors |-> ExtractorNames]

NextExecutors ==
  \/ RegisterExecutor(DExecutors)
  \/ AssignTask(DExecutors)
  \/ RemoveExecutor(DExecutors)

SpecExecutors == Init /\ [][NextExecutors]_vars

\* SpecChanges: the life of two state changes.  A request with no payload
\* arm carries new and processed state changes; a request with a
\* MarkStateChangesProcessed payload carries new state changes and, in the
\* payload, processed ones; every commit succeeds
ProcessedLists == SeqsUpTo(StateChangesProcessed, 2)

DChanges ==
  [changes |-> {<<new, processed>> :
                  new \in SeqsUpTo(NewStateChanges, 1),
                  processed \in ProcessedLists},
   commit |-> {TRUE}]

DMarkProcessed ==
  [changes |-> {<<new, <<>>>> : new \in SeqsUpTo(NewStateChanges, 1)},
   commit |-> {TRUE}, processed |-> ProcessedLists]

NextChanges ==
  \/ OtherPayload(DChanges)
  \/ MarkStateChangesProcessed(DMarkProcessed)

SpecChanges == Init /\ [][NextChanges]_vars

\* SpecMappings: the policy mappings of one content id.  A
\* SetContentExtractionPolicyMappings request lists up to two mappings, each
\* with any set of the two policy names and at most a completion time for
\* "pa"; MarkExtractionPolicyAppliedOnContent names either policy;
\* CreateContent writes the content itself; every commit succeeds
DMappings ==
  [changes |-> NoChanges, commit |-> {TRUE},
   mappings |-> SeqsUpTo([content_id : {"C1"},
                          extraction_policy_names : SUBSET PolicyNames,
                          time_of_policy_completion : Maps({"pa"}, {1})], 2),
   content_ids |-> {"C1"}, policy_names |-> PolicyNames, times |-> Times,
   contents |-> {<<[id |-> "C1", namespace |-> "ns"]>>}]

NextMappings ==
  \/ SetContentExtractionPolicyMappings(DMappings)
  \/ MarkExtractionPolicyAppliedOnContent(DMappings)
  \/ CreateContent(DMappings)

SpecMappings == Init /\ [][NextMappings]_vars

\* SpecSchemas: namespaces, extraction policies and their schemas; two schema
\* ids and one policy id in two namespaces; every commit succeeds
DSchemas ==
  [changes |-> NoChanges, commit |-> {TRUE},
   namespaces |-> NamespaceNames, schemas |-> Schemas,
   policies |-> [id : PolicyIds, namespace : NamespaceNames]]

NextSchemas ==
  \/ CreateNamespace(DSchemas)
  \/ CreateExtractionPolicy(DSchemas)

SpecSchemas == Init /\ [][NextSchemas]_vars

\* SpecReplicas: two instances apply the same requests, each with its own
\* HashMap iteration orders: two tasks and two executors of one extractor
DReplicas ==
  [tasks |-> [id : TaskIds, extractor : {"X"}, outcome : {"Unknown"}],
   executors |-> ExecutorIds, extractors |-> {"X"}]

NextReplicas ==
  \/ ReplicatedRegisterExecutor(DReplicas)
  \/ ReplicatedRemoveExecutor(DReplicas)
  \/ ReplicatedAssignTask(DReplicas)

SpecReplicas == Init /\ [][NextReplicas]_vars

\* ------------------------------------------------------------------ claims
\* the task ids of the persisted TaskAssignments set of executor e
AssignedTo(e) == SetAt(db.TaskAssignments, e)
\* the task ids in the persisted TaskAssignments set of some executor
Assigned == UNION {db.TaskAssignments[e] : e \in DOMAIN db.TaskAssignments}
\* the last call of apply_state_machine_updates was of this payload variant
\* and committed
Committed(kind) == request.payload.kind = kind /\ result = "Ok"

\* C1: for every executor with a persisted Executors record, its entry in
\* executor_running_task_count equals the number of task ids in its
\* persisted TaskAssignments set (0 when the key is absent).
C1_RunningCountIsAssignmentCount ==
  \A x \in DOMAIN db.Executors :
    /\ x \in DOMAIN self.executor_running_task_count
    /\ self.executor_running_task_count[x] = Cardinality(AssignedTo(x))

\* C2: unprocessed_state_changes is exactly the set of ids of the persisted
\* StateChanges records whose processed_at is None.
C2_UnprocessedIsPending ==
  self.unprocessed_state_changes =
    {c \in DOMAIN db.StateChanges : db.StateChanges[c].processed_at = None}

\* C3: a call of apply_state_machine_updates that returns an error leaves
\* all nine reverse indexes as they were before the call.
C3_ErrorLeavesReverseIndexes ==
  [][result' # "Ok" => self' = self]_vars

\* C4: a call of apply_state_machine_updates that returns an error leaves
\* every column of the persisted forward index as it was before the call.
C4_ErrorLeavesForwardIndex ==
  [][result' # "Ok" => db' = db]_vars

\* C4 witness: a request wrote state change S1 inside its transaction, then
\* failed, and no S1 record is persisted.
C4_Witness ==
  /\ result # "Ok"
  /\ request.new_state_changes # <<>>
  /\ request.new_state_changes[1].id \notin DOMAIN db.StateChanges

\* C5: no task id is both in unassigned_tasks and in the persisted
\* TaskAssignments set of an executor.
C5_UnassignedDisjointFromAssigned ==
  self.unassigned_tasks \cap Assigned = {}

\* C6: every task with a persisted Tasks record is in exactly one place,
\* unassigned_tasks or the TaskAssignments set of exactly one executor, and
\* in no place at all when its persisted outcome is terminal.
C6_TaskInExactlyOnePlace ==
  \A t \in DOMAIN db.Tasks :
    LET places == (IF t \in self.unassigned_tasks THEN 1 ELSE 0)
                  + Cardinality({e \in DOMAIN db.TaskAssignments :
                                   t \in db.TaskAssignments[e]})
    IN IF Terminal(db.Tasks[t].outcome) THEN places = 0 ELSE places = 1

\* C7: a task id is in unfinished_tasks_by_extractor[e] if and only if the
\* persisted Tasks record of that id has extractor e and a non-terminal
\* outcome.
C7_UnfinishedIffNotTerminal ==
  \A e \in ExtractorNames, t \in TaskIds :
    t \in SetAt(self.unfinished_tasks_by_extractor, e)
      <=> /\ t \in DOMAIN db.Tasks
          /\ db.Tasks[t].extractor = e
          /\ ~Terminal(db.Tasks[t].outcome)

\* C8: every content id in content_namespace_table[n] has a persisted
\* ContentTable record whose namespace is n.
C8_ContentNamespaceMatchesRecord ==
  \A n \in DOMAIN self.content_namespace_table :
    \A id \in self.content_namespace_table[n] :
      /\ id \in DOMAIN db.ContentTable
      /\ db.ContentTable[id].namespace = n

\* the task ids a request's assignments map to executor e
RequestedFor(req, e) ==
  {t \in DOMAIN req.payload.assignments : req.payload.assignments[t] = e}

\* C9: a committed AssignTask is additive: the persisted set of every
\* executor the request names is its prior set united with the task ids the
\* request maps to it, the TaskAssignments entry of every other executor is
\* unchanged, and no task id of the request is in unassigned_tasks afterwards.
C9_AssignTaskAdditive ==
  [][(request'.payload.kind = "AssignTask" /\ result' = "Ok") =>
       /\ \A e \in ExecutorIds :
            IF RequestedFor(request', e) # {}
            THEN /\ e \in DOMAIN db'.TaskAssignments
                 /\ db'.TaskAssignments[e] = AssignedTo(e) \cup RequestedFor(request', e)
            ELSE Lookup(db'.TaskAssignments, e) = Lookup(db.TaskAssignments, e)
       /\ self'.unassigned_tasks \cap DOMAIN request'.payload.assignments = {}]_vars

\* C9 witness: a committed AssignTask added a task to an executor that keeps
\* another task assigned before, while the other executor, not named in the
\* request, holds a task too.
C9_Witness ==
  /\ Committed("AssignTask")
  /\ \E e \in ExecutorIds, o \in ExecutorIds :
       /\ RequestedFor(request, e) # {}
       /\ AssignedTo(e) \ RequestedFor(request, e) # {}
       /\ RequestedFor(request, o) = {}
       /\ AssignedTo(o) # {}

\* C10: applying the same AssignTask request a second time in a row leaves
\* the persisted TaskAssignments and executor_running_task_count as they were
\* after the first application.
C10_AssignTaskTwiceIsOnce ==
  [][(Committed("AssignTask") /\ request' = request /\ result' = "Ok") =>
       /\ db'.TaskAssignments = db.TaskAssignments
       /\ self'.executor_running_task_count = self.executor_running_task_count]_vars

\* the payload of the call that takes the state to the next one is an
\* UpdateTask that marks a task of executor e finished, the task is in the
\* persisted TaskAssignments set of e, and the call commits
FinishesAssigned(e) ==
  /\ request'.payload.kind = "UpdateTask"
  /\ result' = "Ok"
  /\ request'.payload.mark_finished
  /\ request'.payload.executor_id = Some(e)
  /\ request'.payload.task.id \in AssignedTo(e)

\* C11: a committed UpdateTask with mark_finished = true and executor_id = e
\* for a task in TaskAssignments[e] removes the task id from
\* TaskAssignments[e] and from unfinished_tasks_by_extractor[task.extractor],
\* lowers executor_running_task_count[e] by exactly 1, and adds every content
\* id of content_metadata to content_namespace_table[content.namespace].
C11_UpdateTaskFinishes ==
  [][\A e \in ExecutorIds :
       FinishesAssigned(e) =>
         LET p == request'.payload
         IN /\ p.task.id \notin SetAt(db'.TaskAssignments, e)
            /\ p.task.id \notin SetAt(self'.unfinished_tasks_by_extractor,
                                     p.task.extractor)
            /\ e \in DOMAIN self.executor_running_task_count
            /\ e \in DOMAIN self'.executor_running_task_count
            /\ self'.executor_running_task_count[e]
                 = self.executor_running_task_count[e] - 1
            /\ \A i \in DOMAIN p.content_metadata :
                 p.content_metadata[i].id \in
                   SetAt(self'.content_namespace_table,
                         p.content_metadata[i].namespace)]_vars

\* C12: after a committed RemoveExecutor for executor e the Executors record
\* of e and the TaskAssignments key of e are absent, every task id that was
\* in TaskAssignments[e] before the request is in unassigned_tasks, e is in no
\* set of extractor_executors_table, and executor_running_task_count has no
\* key e.
C12_RemoveExecutorClears ==
  [][(request'.payload.kind = "RemoveExecutor" /\ result' = "Ok") =>
       LET e == request'.payload.executor_id
       IN /\ e \notin DOMAIN db'.Executors
          /\ e \notin DOMAIN db'.TaskAssignments
          /\ AssignedTo(e) \subseteq self'.unassigned_tasks
          /\ \A x \in DOMAIN self'.extractor_executors_table :
               e \notin self'.extractor_executors_table[x]
          /\ e \notin DOMAIN self'.executor_running_task_count]_vars

\* C13: RemoveExecutor for an executor id that has no persisted Executors
\* record returns an error, and the persisted forward index (the
\* TaskAssignments of that id and the request's new_state_changes included)
\* and all reverse indexes are as they were before the call.
C13_RemoveMissingExecutorFails ==
  [][(/\ request'.payload.kind = "RemoveExecutor"
      /\ request'.payload.executor_id \notin DOMAIN db.Executors) =>
       /\ result' # "Ok"
       /\ db' = db
       /\ self' = self]_vars

\* C13 witness: a RemoveExecutor for an executor without an Executors record
\* but with a persisted assignment set, in a request that carries a new state
\* change and marks none processed, returned DatabaseError; the assignment
\* set is still persisted and the state change is not.
C13_Witness ==
  /\ request.payload.kind = "RemoveExecutor"
  /\ result = "DatabaseError"
  /\ request.state_changes_processed = <<>>
  /\ request.new_state_changes # <<>>
  /\ request.new_state_changes[1].id \notin DOMAIN db.StateChanges
  /\ request.payload.executor_id \notin DOMAIN db.Executors
  /\ AssignedTo(request.payload.executor_id) # {}
  /\ self.executor_running_task_count[request.payload.executor_id] > 0

\* the state-change ids a request marks processed, through
\* state_changes_processed or through a MarkStateChangesProcessed payload
MarkedIn(req) ==
  {req.state_changes_processed[i].state_change_id :
     i \in DOMAIN req.state_changes_processed}
  \cup (IF req.payload.kind = "MarkStateChangesProcessed"
        THEN {req.payload.state_changes[i].state_change_id :
                i \in DOMAIN req.payload.state_changes}
        ELSE {})

\* the state-change ids a request lists in new_state_changes
NewIn(req) ==
  {req.new_state_changes[i].id : i \in DOMAIN req.new_state_changes}

\* C14, as stated: a request that marks as processed a state-change id with no
\* persisted StateChanges record fails with DatabaseError (state change not
\* found); no state change of the request is marked processed and
\* unprocessed_state_changes is unchanged.
C14_MarkMissingFails ==
  [][(MarkedIn(request') \ DOMAIN db.StateChanges # {}) =>
       /\ result' = "DatabaseError"
       /\ db'.StateChanges = db.StateChanges
       /\ self'.unprocessed_state_changes = self.unprocessed_state_changes]_vars

\* C14, amended: a request that marks as processed a state-change id that has
\* no persisted StateChanges record and is not listed in the new_state_changes
\* of the same request fails with DatabaseError (state change not found); no
\* state change of the request is marked processed and
\* unprocessed_state_changes is unchanged.
C14_MarkUnknownFails ==
  [][(MarkedIn(request') \ (DOMAIN db.StateChanges \cup NewIn(request')) # {}) =>
       /\ result' = "DatabaseError"
       /\ db'.StateChanges = db.StateChanges
       /\ self'.unprocessed_state_changes = self.unprocessed_state_changes]_vars

\* C14 witness: a request that marked a pending state change processed and
\* then an unknown one returned DatabaseError, and the first one is still
\* pending.
C14_Witness ==
  /\ result = "DatabaseError"
  /\ \E i, j \in DOMAIN request.state_changes_processed :
       LET known == request.state_changes_processed[i].state_change_id
           unknown == request.state_changes_processed[j].state_change_id
       IN /\ i < j
          /\ known \in DOMAIN db.StateChanges
          /\ db.StateChanges[known].processed_at = None
          /\ known \in self.unprocessed_state_changes
          /\ unknown \notin DOMAIN db.StateChanges

\* C15: MarkExtractionPolicyAppliedOnContent for a content id whose persisted
\* mapping does not contain the given policy name fails with the error kind
\* PolicyNotRegistered and leaves the persisted mapping unchanged; when the
\* name is present it succeeds and sets time_of_policy_completion[name] to the
\* given time without changing extraction_policy_names.
C15_MarkPolicyApplied ==
  [][(/\ request'.payload.kind = "MarkExtractionPolicyAppliedOnContent"
      /\ request'.payload.content_id
           \in DOMAIN db.ExtractionPoliciesAppliedOnContent) =>
       LET p == request'.payload
           before == db.ExtractionPoliciesAppliedOnContent[p.content_id]
           after == db'.ExtractionPoliciesAppliedOnContent[p.content_id]
       IN IF p.extraction_policy_name \notin before.extraction_policy_names
          THEN /\ result' = "PolicyNotRegistered"
               /\ after = before
          ELSE /\ result' = "Ok"
               /\ after.extraction_policy_names = before.extraction_policy_names
               /\ p.extraction_policy_name \in DOMAIN after.time_of_policy_completion
               /\ after.time_of_policy_completion[p.extraction_policy_name]
                    = p.policy_completion_time]_vars

\* the policy names of every mapping of the list for content id c
RECURSIVE NamesFor(_, _)
NamesFor(mappings, c) ==
  IF mappings = <<>> THEN {}
  ELSE (IF Head(mappings).content_id = c
        THEN Head(mappings).extraction_policy_names ELSE {})
       \cup NamesFor(Tail(mappings), c)

\* the completion times times, overridden key by key by the mappings of the
\* list for content id c, in order
RECURSIVE TimesFor(_, _, _)
TimesFor(times, mappings, c) ==
  IF mappings = <<>> THEN times
  ELSE TimesFor(IF Head(mappings).content_id = c
                THEN Extend(times, Head(mappings).time_of_policy_completion)
                ELSE times,
                Tail(mappings), c)

\* C16: after a committed SetContentExtractionPolicyMappings request, for
\* every content id of the request the persisted extraction_policy_names is
\* the union of the names persisted before and the names of every input
\* mapping for that id, and time_of_policy_completion is the prior map
\* overridden key by key by the input mappings in order, also when the
\* request lists the same content id in two mappings.
C16_MappingsAreMerged ==
  [][(/\ request'.payload.kind = "SetContentExtractionPolicyMappings"
      /\ result' = "Ok") =>
       LET mappings == request'.payload.content_extraction_policy_mappings
       IN \A i \in DOMAIN mappings :
            LET c == mappings[i].content_id
                prior == IF c \in DOMAIN db.ExtractionPoliciesAppliedOnContent
                         THEN db.ExtractionPoliciesAppliedOnContent[c]
                         ELSE [content_id |-> c, extraction_policy_names |-> {},
                               time_of_policy_completion |-> EmptyMap]
            IN /\ c \in DOMAIN db'.ExtractionPoliciesAppliedOnContent
               /\ db'.ExtractionPoliciesAppliedOnContent[c].extraction_policy_names
                    = prior.extraction_policy_names \cup NamesFor(mappings, c)
               /\ db'.ExtractionPoliciesAppliedOnContent[c].time_of_policy_completion
                    = TimesFor(prior.time_of_policy_completion, mappings, c)]_vars

\* C17: CreateExtractionPolicy writes the policy record, then the
\* new_structured_data_schema, and last the updated_structured_data_schema
\* when present: when both schemas carry the same schema id, the record
\* persisted in StructuredDataSchemas after the commit is the
\* updated_structured_data_schema.
C17_UpdatedSchemaWrittenLast ==
  (/\ Committed("CreateExtractionPolicy")
   /\ request.payload.updated_structured_data_schema # None
   /\ Unwrap(request.payload.updated_structured_data_schema).id
        = request.payload.new_structured_data_schema.id)
  => db.StructuredDataSchemas[request.payload.new_structured_data_schema.id]
       = Unwrap(request.payload.updated_structured_data_schema)

\* the schema id is listed under the schema's namespace and has a persisted
\* StructuredDataSchemas record
SchemaIndexed(schema) ==
  /\ schema.id \in SetAt(self.schemas_by_namespace, schema.namespace)
  /\ schema.id \in DOMAIN db.StructuredDataSchemas

\* C20: after a committed CreateNamespace the id of its
\* structured_data_schema is in schemas_by_namespace[schema.namespace]; after
\* a committed CreateExtractionPolicy the policy id is in
\* extraction_policies_table[policy.namespace] and the ids of
\* new_structured_data_schema and, when present,
\* updated_structured_data_schema are in schemas_by_namespace under their
\* namespaces, each with a persisted StructuredDataSchemas record.
C20_SchemasAndPoliciesIndexed ==
  /\ Committed("CreateNamespace") =>
       SchemaIndexed(request.payload.structured_data_schema)
  /\ Committed("CreateExtractionPolicy") =>
       /\ request.payload.extraction_policy.id
            \in SetAt(self.extraction_policies_table,
                      request.payload.extraction_policy.namespace)
       /\ SchemaIndexed(request.payload.new_structured_data_schema)
       /\ \A schema \in request.payload.updated_structured_data_schema :
            SchemaIndexed(schema)

\* C20 witness: a committed CreateExtractionPolicy carried an updated and a
\* new schema of two ids in the namespace of the policy, and both ids and the
\* policy id are listed under that namespace.
C20_Witness ==
  /\ Committed("CreateExtractionPolicy")
  /\ \E updated \in request.payload.updated_structured_data_schema :
       LET new == request.payload.new_structured_data_schema
           namespace == request.payload.extraction_policy.namespace
       IN /\ updated.id # new.id
          /\ updated.namespace = namespace
          /\ new.namespace = namespace
          /\ {updated.id, new.id} \subseteq self.schemas_by_namespace[namespace]
          /\ request.payload.extraction_policy.id
               \in self.extraction_policies_table[namespace]

\* the persisted StateChanges record of id c has processed_at set
Processed(d, c) ==
  c \in DOMAIN d.StateChanges /\ d.StateChanges[c].processed_at # None

\* C18: a state change is terminal once processed: once the persisted
\* StateChanges record of an id has processed_at set, no later committed
\* request returns that record to processed_at = None or puts the id back
\* into unprocessed_state_changes, also when the request lists the same id in
\* new_state_changes.
C18_ProcessedIsTerminal ==
  [][\A c \in StateChangeIds :
       Processed(db, c) =>
         /\ Processed(db', c)
         /\ c \notin self.unprocessed_state_changes
              => c \notin self'.unprocessed_state_changes]_vars

\* the entries a request marks processed, in the order the code handles
\* them: state_changes_processed, then the MarkStateChangesProcessed payload
ProcessedIn(req) ==
  req.state_changes_processed
    \o (IF req.payload.kind = "MarkStateChangesProcessed"
        THEN req.payload.state_changes ELSE <<>>)

\* the processed_at of the last entry of the list for id c
LastTime(list, c) ==
  LET entries == {i \in DOMAIN list : list[i].state_change_id = c}
  IN list[CHOOSE i \in entries : \A j \in entries : j <= i].processed_at

C22_NoReverseWriteBeforeCommit ==
  [][self_at_commit(self, db, request') = self]_vars

PolicyMappingKinds ==
  {"SetContentExtractionPolicyMappings", "MarkExtractionPolicyAppliedOnContent"}

\* C24: a committed SetContentExtractionPolicyMappings or
\* MarkExtractionPolicyAppliedOnContent request with empty new_state_changes
\* and empty state_changes_processed leaves all nine reverse indexes
\* unchanged and changes no persisted column other than
\* ExtractionPoliciesAppliedOnContent.
C24_PolicyMappingsFrame ==
  [][(/\ request'.payload.kind \in PolicyMappingKinds
      /\ result' = "Ok"
      /\ request'.new_state_changes = <<>>
      /\ request'.state_changes_processed = <<>>) =>
       /\ self' = self
       /\ [db' EXCEPT !.ExtractionPoliciesAppliedOnContent =
             db.ExtractionPoliciesAppliedOnContent] = db]_vars

\* C24 witness: a committed MarkExtractionPolicyAppliedOnContent recorded a
\* completion time for a content that has a ContentTable record and an entry
\* in content_namespace_table.
C24_Witness ==
  /\ Committed("MarkExtractionPolicyAppliedOnContent")
  /\ request.new_state_changes = <<>>
  /\ request.state_changes_processed = <<>>
  /\ request.payload.content_id \in DOMAIN db.ContentTable
  /\ request.payload.content_id
       \in SetAt(self.content_namespace_table,
                 db.ContentTable[request.payload.content_id].namespace)
  /\ request.payload.extraction_policy_name
       \in DOMAIN db.ExtractionPoliciesAppliedOnContent[request.payload.content_id]
                    .time_of_policy_completion

\* C25: after any sequence of committed RegisterExecutor and RemoveExecutor
\* requests, an executor id is in extractor_executors_table[x] only if a
\* persisted Executors record with that id exists and its extractor name is
\* x, also when an executor id is registered a second time with a different
\* extractor and then removed.
C25_ExtractorExecutorsMatchRecords ==
  \A x \in DOMAIN self.extractor_executors_table :
    \A e \in self.extractor_executors_table[x] :
      /\ e \in DOMAIN db.Executors
      /\ db.Executors[e].extractor.name = x

\* C26: after any sequence of committed requests, every key of the persisted
\* TaskAssignments column is the id of an executor with a persisted Executors
\* record: AssignTask to, or UpdateTask with mark_finished for, an executor
\* id that is not registered does not create a TaskAssignments key for it.
C26_AssignmentKeysAreExecutors ==
  DOMAIN db.TaskAssignments \subseteq DOMAIN db.Executors

\* C27: after any sequence of committed requests, every task id in
\* unassigned_tasks is also in unfinished_tasks_by_extractor[e] for some
\* extractor e, including after RemoveExecutor frees the tasks of an
\* executor.
C27_UnassignedAreUnfinished ==
  \A t \in self.unassigned_tasks :
    \E e \in DOMAIN self.unfinished_tasks_by_extractor :
      t \in self.unfinished_tasks_by_extractor[e]

====
